---- MODULE Spec2Model ----
(***************************************************************************)
(* Model of backend/attendence.py: the EigenFace attendance service.       *)
(*                                                                         *)
(* Durable state is the four files the module names (labels.json, the      *)
(* dataset/ tree, model_eigen.yml, attendance.csv); process state is the   *)
(* module-level recognizer object and, for each worker thread of the       *)
(* server, the position of the request handler it runs and the handler's   *)
(* local variables.  Every access of a handler to shared state is one      *)
(* step, so that the handlers of two threads interleave as they do under   *)
(* the threaded development server.  Spec runs one request at a time,      *)
(* FaultSpec adds the loss of labels.json, ConcSpec lets two requests      *)
(* overlap and RegRaceSpec two registrations of new names.                 *)
(***************************************************************************)
EXTENDS Integers, Sequences, FiniteSets, TLC

\* ----------------------------------------------------------------- bounds
NumNames == 2          \* distinct subject names a client may send
MaxTime == 2           \* the clock stops advancing here (in clock ticks)
MaxSamples == 2        \* sample files the dataset may hold before registration stops
MaxLedger == 2         \* recognitions that get past face detection
MaxFaults == 1         \* times the registry store fails
MaxRows == 1           \* ledger rows where the clock runs or the registry store fails
TicksPerSecond == 2    \* clock ticks in one second of the ledger's format

\* ------------------------------------------------------ program constants
THRESHOLD == 5500

Threads == {"t1", "t2"}

AllNames == <<"alice", "bob", "carol", "dave">>
Names == {AllNames[i] : i \in 1..NumNames}
Unknown == "Unknown"
NoField == "<no form field>"

\* What a client may upload as the "image" part of the form: nothing, bytes
\* that do not decode, an image without a face (face 0) and one with a face.
Images ==
    {[kind |-> "missing", face |-> 0], [kind |-> "undecodable", face |-> 0],
     [kind |-> "image", face |-> 0], [kind |-> "image", face |-> 1]}

\* An upload in which detect_face locates a face.
FaceImage == [kind |-> "image", face |-> 1]

\* The dissimilarity scores predict may report, around the threshold.
Scores == {0, THRESHOLD - 1, THRESHOLD, THRESHOLD + 1}

\* --------------------------------------------------------- pure functions
\* str(n) for n >= 0: the decimal digits, most significant first.
RECURSIVE Str(_)
Str(n) == IF n < 10 THEN <<n>> ELSE Append(Str(n \div 10), n % 10)

\* int(s) for a digit string s.
RECURSIVE IntOf(_)
IntOf(s) ==
    IF Len(s) = 0 THEN 0
    ELSE 10 * IntOf(SubSeq(s, 1, Len(s) - 1)) + s[Len(s)]

Max(S) == CHOOSE x \in S : \A y \in S : y <= x

\* A dict is the sequence of its <<key, value>> items in insertion order.
EmptyDict == << >>

Keys(d) == {d[i][1] : i \in 1..Len(d)}

\* d.get(k, default)
DictGet(d, k, default) ==
    IF \E i \in 1..Len(d) : d[i][1] = k
    THEN d[CHOOSE i \in 1..Len(d) : d[i][1] = k][2]
    ELSE default

\* d[k] = v
DictSet(d, k, v) ==
    IF \E i \in 1..Len(d) : d[i][1] = k
    THEN [i \in 1..Len(d) |-> IF d[i][1] = k THEN <<k, v>> ELSE d[i]]
    ELSE Append(d, <<k, v>>)

\* The loop of register_face over labels_dict.items(): the key of the first
\* item whose value is name, or None (the empty string here).
None == << >>

\* Mutant: the lookup never finds the name.
FindLabelNever(d, name) == None

FindLabel(d, name) ==
    IF \E i \in 1..Len(d) : d[i][2] = name
    THEN d[CHOOSE i \in 1..Len(d) :
               d[i][2] = name /\ \A j \in 1..(i - 1) : d[j][2] # name][1]
    ELSE None

\* Mutant: the maximum is not incremented.
get_next_label_id_max(labels_dict) ==
    IF labels_dict = EmptyDict THEN Str(1)
    ELSE Str(Max({IntOf(k) : k \in Keys(labels_dict)}))

get_next_label_id(labels_dict) ==
    IF labels_dict = EmptyDict THEN Str(1)
    ELSE Str(Max({IntOf(k) : k \in Keys(labels_dict)}) + 1)

\* strftime("%Y-%m-%d %H:%M:%S"): the clock reading cut to whole seconds.
FormatSeconds(t) == t \div TicksPerSecond

\* strftime("%Y%m%d_%H%M%S%f"): the clock reading at its full resolution.
FormatMicros(t) == t

\* ------------------------------------------------------------------ state
VARIABLES
    labelsFile,   \* labels.json: [status, data]
    dataset,      \* dataset/<dir>/<fname>.jpg: set of [dir, fname, face]
    modelFile,    \* model_eigen.yml: [status, data]
    recognizer,   \* the module-level recognizer: [trained, data]
    ledger,       \* attendance.csv: sequence of [name, ts]
    now,          \* the system clock, in ticks
    pc,           \* per thread: where its handler stands
    req,          \* per thread: the request it serves
    loc,          \* per thread: the handler's local variables
    resp,         \* per thread: the response it returns
    snap,         \* per thread: the durable state when the request arrived
    resolved,     \* history: per name, the id its first registration resolved
                  \* and whether it was registered once or more often
    faults,       \* history: how often the registry store has failed
    created,      \* history: the <<name, id>> of the last two new identities, in order
    user_states,  \* agent.py: per user id, the chatbot session [state, data, intent]
    reply         \* agent.py: what the last chatbot request did and answered

vars == <<labelsFile, dataset, modelFile, recognizer, ledger, now,
          pc, req, loc, resp, snap, resolved, faults, created,
          user_states, reply>>

NoReq == [op |-> "none", name |-> NoField, image |-> [kind |-> "missing", face |-> 0]]

NoLoc == [labels_dict |-> EmptyDict, label_id_str |-> None, created |-> FALSE,
          samples |-> {}, label_id |-> 0, confidence |-> 0, name |-> Unknown]

NoResp == [kind |-> "none", status |-> 0, name |-> Unknown, confidence |-> -1]

NoSnap == [labelsFile |-> [status |-> "ok", data |-> EmptyDict], ledger |-> << >>,
           model |-> [status |-> "absent", data |-> {}], dataset |-> {}, now |-> 0]

\* load_labels(): the dict in the file; {} when the file is missing or does
\* not parse.
Load(file) == IF file.status = "ok" THEN file.data ELSE EmptyDict

load_labels == Load(labelsFile)

Snapshot ==
    [labelsFile |-> labelsFile, ledger |-> ledger, model |-> modelFile,
     dataset |-> dataset, now |-> now]

\* The state __main__ leaves before app.run.
Init ==
    /\ labelsFile = [status |-> "ok", data |-> EmptyDict]
    /\ dataset = {}
    /\ modelFile = [status |-> "absent", data |-> {}]
    /\ recognizer = [trained |-> FALSE, data |-> {}]
    /\ ledger = << >>
    /\ now = 0
    /\ pc = [t \in Threads |-> "idle"]
    /\ req = [t \in Threads |-> NoReq]
    /\ loc = [t \in Threads |-> NoLoc]
    /\ resp = [t \in Threads |-> NoResp]
    /\ snap = [t \in Threads |-> NoSnap]
    /\ resolved = [n \in Names \cup {Unknown} |-> [id |-> 0, times |-> 0]]
    /\ faults = 0
    /\ created = << >>
    /\ user_states = << >>
    /\ reply = [user |-> "", message |-> {}, posted |-> "none", status |-> 0,
                raised |-> FALSE, response |-> "", http |-> 0]

Respond(t, r) ==
    /\ pc' = [pc EXCEPT ![t] = "done"]
    /\ resp' = [resp EXCEPT ![t] = r]

Goto(t, label) ==
    /\ pc' = [pc EXCEPT ![t] = label]
    /\ resp' = resp

Busy(op) == {t \in Threads : req[t].op = op /\ pc[t] # "done"}

\* detect_face, lines 60-81: whether a face is found in a decoded image.
LocatesFace(image) == image.kind = "image" /\ image.face # 0

\* ------------------------------------------------------- train_model steps
\* Mutant: only .png files are read, and the samples are .jpg files.
CorpusPngOnly(labels_dict) == {}

\* Mutant: the labels are counted from zero.
CorpusFromZero(labels_dict) ==
    {[dir |-> s.dir, fname |-> s.fname, face |-> s.face, label |-> IntOf(s.dir) - 1] :
        s \in {x \in dataset : x.dir \in Keys(labels_dict)}}

\* The (sample, label) pairs train_model collects for the registry it loaded:
\* for each key, in order, every image under dataset/<key>/, labelled int(key).
Corpus(labels_dict) ==
    {[dir |-> s.dir, fname |-> s.fname, face |-> s.face, label |-> IntOf(s.dir)] :
        s \in {x \in dataset : x.dir \in Keys(labels_dict)}}

\* Mutant: the model file is written before the corpus is found empty.
TrainScanSavesFirst(t) ==
    /\ pc[t] = "train_scan"
    /\ LET faces == Corpus(load_labels) IN
        /\ modelFile' = [status |-> "ok", data |-> faces]
        /\ IF faces = {}
           THEN /\ Respond(t, [kind |-> "RegisteredNoTrain", status |-> 200,
                               name |-> req[t].name, confidence |-> -1])
                /\ recognizer' = recognizer
           ELSE /\ Respond(t, [kind |-> "Registered", status |-> 200,
                               name |-> req[t].name, confidence |-> -1])
                /\ recognizer' = [trained |-> TRUE, data |-> faces]
    /\ UNCHANGED <<labelsFile, dataset, ledger, now, req, loc, snap,
                   resolved, faults, created,
                   user_states, reply>>

\* train_model, lines 89-116: load the registry, scan the dataset; with no
\* face at all the handler answers that there is nothing to train.
TrainScan(t) ==
    /\ pc[t] = "train_scan"
    /\ LET faces == Corpus(load_labels) IN
        IF faces = {}
        THEN /\ Respond(t, [kind |-> "RegisteredNoTrain", status |-> 200,
                            name |-> req[t].name, confidence |-> -1])
             /\ loc' = loc
        ELSE /\ Goto(t, "train_fit")
             /\ loc' = [loc EXCEPT ![t].samples = faces]
    /\ UNCHANGED <<labelsFile, dataset, modelFile, recognizer, ledger, now,
                   req, snap, resolved, faults, created,
                   user_states, reply>>

\* Mutant: training adds the corpus to what the recognizer holds.
TrainFitIncremental(t) ==
    /\ pc[t] = "train_fit"
    /\ recognizer' = [trained |-> TRUE, data |-> recognizer.data \cup loc[t].samples]
    /\ Goto(t, "train_save_open")
    /\ UNCHANGED <<labelsFile, dataset, modelFile, ledger, now, req, loc,
                   snap, resolved, faults, created,
                   user_states, reply>>

\* recognizer.train(faces, labels), line 118: the module-level recognizer
\* holds the new model, which is not on disk yet.
TrainFit(t) ==
    /\ pc[t] = "train_fit"
    /\ recognizer' = [trained |-> TRUE, data |-> loc[t].samples]
    /\ Goto(t, "train_save_open")
    /\ UNCHANGED <<labelsFile, dataset, modelFile, ledger, now, req, loc,
                   snap, resolved, faults, created,
                   user_states, reply>>

\* recognizer.save(MODEL_FILE), line 119, first half: the file is opened for
\* writing in place, so what it held is gone and the new content is not
\* complete.
TrainSaveOpen(t) ==
    /\ pc[t] = "train_save_open"
    /\ modelFile' = [status |-> "partial", data |-> {}]
    /\ Goto(t, "train_save_close")
    /\ UNCHANGED <<labelsFile, dataset, recognizer, ledger, now, req, loc,
                   snap, resolved, faults, created,
                   user_states, reply>>

\* recognizer.save(MODEL_FILE), second half, and the handler's answer
\* (lines 119-120, 182-186): the file holds what the recognizer holds.
TrainSaveClose(t) ==
    /\ pc[t] = "train_save_close"
    /\ modelFile' = [status |-> "ok", data |-> recognizer.data]
    /\ Respond(t, [kind |-> "Registered", status |-> 200,
                   name |-> req[t].name, confidence |-> -1])
    /\ UNCHANGED <<labelsFile, dataset, recognizer, ledger, now, req, loc,
                   snap, resolved, faults, created,
                   user_states, reply>>

\* ----------------------------------------------------- register_face steps
\* Lines 142-156: the form is checked, the image decoded, the face located.
\* Registration stops at MaxSamples files; after a failure of the registry
\* store one more is admitted, so that the registry can be rebuilt.
Register(t, name, image) ==
    /\ pc[t] = "idle"
    /\ LocatesFace(image) /\ name # NoField
          => Cardinality(dataset) + Cardinality(Busy("register"))
                < MaxSamples + (IF faults > 0 THEN 1 ELSE 0)
    /\ req' = [req EXCEPT ![t] = [op |-> "register", name |-> name, image |-> image]]
    /\ snap' = [snap EXCEPT ![t] = Snapshot]
    /\ IF name = NoField \/ image.kind = "missing"
       THEN Respond(t, [kind |-> "MissingField", status |-> 400,
                        name |-> Unknown, confidence |-> -1])
       ELSE IF image.kind = "undecodable"
       THEN Respond(t, [kind |-> "InvalidImage", status |-> 400,
                        name |-> Unknown, confidence |-> -1])
       ELSE IF image.face = 0
       THEN Respond(t, [kind |-> "NoFace", status |-> 200,
                        name |-> Unknown, confidence |-> -1])
       ELSE Goto(t, "reg_resolve")
    /\ UNCHANGED <<labelsFile, dataset, modelFile, recognizer, ledger, now,
                   loc, resolved, faults, created,
                   user_states, reply>>

\* Mutant: the next id also counts the ids the other threads have allocated
\* and not saved yet, as if the threads shared one counter.
RegResolveSharedCounter(t) ==
    /\ pc[t] = "reg_resolve"
    /\ LET labels_dict == load_labels
           found == FindLabel(labels_dict, req[t].name)
           held == {IntOf(loc[u].label_id_str) :
                       u \in {v \in Threads : v # t /\ loc[v].created}}
           fresh == Str(Max({IntOf(k) : k \in Keys(labels_dict)} \cup held \cup {0}) + 1)
       IN IF found # None
          THEN /\ loc' = [loc EXCEPT ![t].labels_dict = labels_dict,
                                     ![t].label_id_str = found,
                                     ![t].created = FALSE]
               /\ Goto(t, "reg_imwrite")
          ELSE /\ loc' = [loc EXCEPT
                            ![t].labels_dict = DictSet(labels_dict, fresh, req[t].name),
                            ![t].label_id_str = fresh,
                            ![t].created = TRUE]
               /\ Goto(t, "reg_save_open")
    /\ UNCHANGED <<labelsFile, dataset, modelFile, recognizer, ledger, now,
                   req, snap, resolved, faults, created,
                   user_states, reply>>

\* Mutant: the next id is also greater than the id of every sample
\* directory, so a directory is never taken over.
RegResolveSkipsUsedDirs(t) ==
    /\ pc[t] = "reg_resolve"
    /\ LET labels_dict == load_labels
           found == FindLabel(labels_dict, req[t].name)
           used == {IntOf(k) : k \in Keys(labels_dict)}
                      \cup {IntOf(x.dir) : x \in dataset}
           fresh == Str(Max(used \cup {0}) + 1)
       IN IF found # None
          THEN /\ loc' = [loc EXCEPT ![t].labels_dict = labels_dict,
                                     ![t].label_id_str = found,
                                     ![t].created = FALSE]
               /\ Goto(t, "reg_imwrite")
          ELSE /\ loc' = [loc EXCEPT
                            ![t].labels_dict = DictSet(labels_dict, fresh, req[t].name),
                            ![t].label_id_str = fresh,
                            ![t].created = TRUE]
               /\ Goto(t, "reg_save_open")
    /\ UNCHANGED <<labelsFile, dataset, modelFile, recognizer, ledger, now,
                   req, snap, resolved, faults, created,
                   user_states, reply>>

\* Lines 159-169: the registry is loaded and the name looked up; an unseen
\* name gets the next id in the handler's copy of the registry.
RegResolve(t) ==
    /\ pc[t] = "reg_resolve"
    /\ LET labels_dict == load_labels
           found == FindLabel(labels_dict, req[t].name)
           fresh == get_next_label_id(labels_dict)
       IN IF found # None
          THEN /\ loc' = [loc EXCEPT ![t].labels_dict = labels_dict,
                                     ![t].label_id_str = found,
                                     ![t].created = FALSE]
               /\ Goto(t, "reg_imwrite")
          ELSE /\ loc' = [loc EXCEPT
                            ![t].labels_dict = DictSet(labels_dict, fresh, req[t].name),
                            ![t].label_id_str = fresh,
                            ![t].created = TRUE]
               /\ Goto(t, "reg_save_open")
    /\ UNCHANGED <<labelsFile, dataset, modelFile, recognizer, ledger, now,
                   req, snap, resolved, faults, created,
                   user_states, reply>>

\* save_labels, line 44: open(LABELS_FILE, "w") empties the file.
RegSaveOpen(t) ==
    /\ pc[t] = "reg_save_open"
    /\ labelsFile' = [status |-> "empty", data |-> EmptyDict]
    /\ Goto(t, "reg_save_dump")
    /\ UNCHANGED <<dataset, modelFile, recognizer, ledger, now, req, loc,
                   snap, resolved, faults, created,
                   user_states, reply>>

\* What the file holds once this writer's json.dump is flushed: its dict;
\* when another writer's text went in since this one opened the file, the
\* two texts overlay and the file may not parse.
DumpOutcomes(t) ==
    {[status |-> "ok", data |-> loc[t].labels_dict]}
        \cup (IF labelsFile.status = "empty" THEN {}
              ELSE {[status |-> "corrupt", data |-> EmptyDict]})

\* save_labels, line 45 and the close of the file.
RegSaveDump(t) ==
    /\ pc[t] = "reg_save_dump"
    /\ labelsFile' \in DumpOutcomes(t)
    /\ Goto(t, "reg_imwrite")
    /\ UNCHANGED <<dataset, modelFile, recognizer, ledger, now, req, loc,
                   snap, resolved, faults, created,
                   user_states, reply>>

\* The dataset after cv2.imwrite(dataset/<dir>/<fname>.jpg, face).
WriteSample(dir, fname, face) ==
    {s \in dataset : ~(s.dir = dir /\ s.fname = fname)}
        \cup {[dir |-> dir, fname |-> fname, face |-> face]}

LastTwo(seq) == IF Len(seq) <= 2 THEN seq ELSE SubSeq(seq, Len(seq) - 1, Len(seq))

\* Lines 173-179: the sample is written under the id's folder, named by the
\* clock.
RegImwrite(t) ==
    /\ pc[t] = "reg_imwrite"
    /\ dataset' = WriteSample(loc[t].label_id_str, FormatMicros(now), req[t].image.face)
    /\ resolved' = [resolved EXCEPT ![req[t].name] =
                        IF @.times = 0
                        THEN [id |-> IntOf(loc[t].label_id_str), times |-> 1]
                        ELSE [id |-> @.id, times |-> 2]]
    /\ created' = IF loc[t].created
                  THEN LastTwo(Append(created, <<req[t].name, IntOf(loc[t].label_id_str)>>))
                  ELSE created
    /\ Goto(t, "train_scan")
    /\ UNCHANGED <<labelsFile, modelFile, recognizer, ledger, now, req, loc, snap, faults,
                   user_states, reply>>

\* ---------------------------------------------------- recognize_face steps
\* Mutant: an image without a face is logged as an attendance of "Unknown".
RecognizeLogsUnknown(t, image) ==
    /\ pc[t] = "idle"
    /\ req' = [req EXCEPT ![t] = [op |-> "recognize", name |-> NoField, image |-> image]]
    /\ snap' = [snap EXCEPT ![t] = Snapshot]
    /\ image.kind = "image" /\ image.face = 0
    /\ Len(ledger) < MaxLedger
    /\ ledger' = Append(ledger, [name |-> Unknown, ts |-> FormatSeconds(now)])
    /\ Respond(t, [kind |-> "NoFace", status |-> 200,
                   name |-> Unknown, confidence |-> -1])
    /\ UNCHANGED <<labelsFile, dataset, modelFile, recognizer, now,
                   loc, resolved, faults, created,
                   user_states, reply>>

\* Lines 197-210: the form is checked, the image decoded, the face located.
Recognize(t, image) ==
    /\ pc[t] = "idle"
    /\ LocatesFace(image)
          => Len(ledger) + Cardinality(Busy("recognize")) < MaxLedger
    /\ req' = [req EXCEPT ![t] = [op |-> "recognize", name |-> NoField, image |-> image]]
    /\ snap' = [snap EXCEPT ![t] = Snapshot]
    /\ IF image.kind = "missing"
       THEN Respond(t, [kind |-> "MissingField", status |-> 400,
                        name |-> Unknown, confidence |-> -1])
       ELSE IF image.kind = "undecodable"
       THEN Respond(t, [kind |-> "InvalidImage", status |-> 400,
                        name |-> Unknown, confidence |-> -1])
       ELSE IF image.face = 0
       THEN Respond(t, [kind |-> "NoFace", status |-> 200,
                        name |-> Unknown, confidence |-> -1])
       ELSE Goto(t, "rec_load_model")
    /\ UNCHANGED <<labelsFile, dataset, modelFile, recognizer, ledger, now,
                   loc, resolved, faults, created,
                   user_states, reply>>

\* load_model, lines 122-127, and line 212-213: without a model file the
\* handler answers that the model is not trained; a file that is being
\* written does not parse and the request fails; otherwise the module-level
\* recognizer takes the file's content.
\* Mutant: the file is read without the test that it exists.
LoadModelOutcomeNoExists(file) ==
    IF file.status = "ok" THEN "loaded" ELSE "InternalError"

LoadModelOutcome(file) ==
    IF file.status = "absent" THEN "NoModel"
    ELSE IF file.status = "partial" THEN "InternalError"
    ELSE "loaded"

\* Mutant: with a model file present the recognizer is used as it is in
\* memory, without reading the file.
RecLoadModelKeepsMemory(t) ==
    /\ pc[t] = "rec_load_model"
    /\ IF LoadModelOutcome(modelFile) = "NoModel"
       THEN Respond(t, [kind |-> "NoModel", status |-> 200,
                        name |-> Unknown, confidence |-> -1])
       ELSE Goto(t, "rec_predict")
    /\ UNCHANGED <<labelsFile, dataset, modelFile, recognizer, ledger, now, req,
                   loc, snap, resolved, faults, created,
                   user_states, reply>>

RecLoadModel(t) ==
    /\ pc[t] = "rec_load_model"
    /\ IF LoadModelOutcome(modelFile) = "NoModel"
       THEN /\ Respond(t, [kind |-> "NoModel", status |-> 200,
                           name |-> Unknown, confidence |-> -1])
            /\ recognizer' = recognizer
       ELSE IF LoadModelOutcome(modelFile) = "InternalError"
       THEN /\ Respond(t, [kind |-> "InternalError", status |-> 500,
                           name |-> Unknown, confidence |-> -1])
            /\ recognizer' = recognizer
       ELSE /\ Goto(t, "rec_predict")
            /\ recognizer' = [trained |-> TRUE, data |-> modelFile.data]
    /\ UNCHANGED <<labelsFile, dataset, modelFile, ledger, now, req, loc,
                   snap, resolved, faults, created,
                   user_states, reply>>

\* recognizer.predict, line 216: the label of one of the samples the
\* recognizer holds, and a dissimilarity score.  The projection and the
\* distance are the library's; any label of the model and any score may
\* come back.
Predictions ==
    {<<s.label, c>> : s \in recognizer.data, c \in Scores}

\* Mutant: a score equal to the threshold is accepted.
AcceptsAtThreshold(confidence) == confidence <= THRESHOLD

\* The decision of line 221.
Accepts(confidence) == confidence < THRESHOLD

\* Mutant: a rejected candidate is recorded in the ledger as "Unknown".
RecPredictLogsRejected(t) ==
    /\ pc[t] = "rec_predict"
    /\ \E p \in Predictions :
        IF Accepts(p[2])
        THEN /\ loc' = [loc EXCEPT ![t].label_id = p[1], ![t].confidence = p[2]]
             /\ Goto(t, "rec_name")
             /\ ledger' = ledger
        ELSE /\ loc' = [loc EXCEPT ![t].label_id = p[1], ![t].confidence = p[2]]
             /\ Respond(t, [kind |-> "Rejected", status |-> 200,
                            name |-> Unknown, confidence |-> p[2]])
             /\ ledger' = Append(ledger, [name |-> Unknown, ts |-> FormatSeconds(now)])
    /\ UNCHANGED <<labelsFile, dataset, modelFile, recognizer, now,
                   req, snap, resolved, faults, created,
                   user_states, reply>>

\* Lines 216-236: predict, then accept below the threshold and reject
\* otherwise, the score reported.
RecPredict(t) ==
    /\ pc[t] = "rec_predict"
    /\ \E p \in Predictions :
        IF Accepts(p[2])
        THEN /\ loc' = [loc EXCEPT ![t].label_id = p[1], ![t].confidence = p[2]]
             /\ Goto(t, "rec_name")
        ELSE /\ loc' = [loc EXCEPT ![t].label_id = p[1], ![t].confidence = p[2]]
             /\ Respond(t, [kind |-> "Rejected", status |-> 200,
                            name |-> Unknown, confidence |-> p[2]])
    /\ UNCHANGED <<labelsFile, dataset, modelFile, recognizer, ledger, now,
                   req, snap, resolved, faults, created,
                   user_states, reply>>

\* Mutant: the lookup has no default.
NameOfNoDefault(labels_dict, label_id) == DictGet(labels_dict, Str(label_id), "None")

\* Lines 222-223: the candidate id is looked up in the registry.
NameOf(labels_dict, label_id) == DictGet(labels_dict, Str(label_id), Unknown)

RecName(t) ==
    /\ pc[t] = "rec_name"
    /\ loc' = [loc EXCEPT ![t].labels_dict = load_labels,
                          ![t].name = NameOf(load_labels, loc[t].label_id)]
    /\ Goto(t, "rec_mark")
    /\ UNCHANGED <<labelsFile, dataset, modelFile, recognizer, ledger, now,
                   req, snap, resolved, faults, created,
                   user_states, reply>>

\* Mutant: a name the ledger holds already is not recorded again.
mark_attendance_dedup(name) ==
    ledger' = IF \E i \in 1..Len(ledger) : ledger[i].name = name
              THEN ledger
              ELSE Append(ledger, [name |-> name, ts |-> FormatSeconds(now)])

\* Mutant: the timestamp is evaluated once, when the module is loaded.
mark_attendance_stale(name) ==
    ledger' = Append(ledger, [name |-> name, ts |-> FormatSeconds(0)])

\* mark_attendance, lines 54-58: one row, the name and the clock reading.
mark_attendance(name) ==
    ledger' = Append(ledger, [name |-> name, ts |-> FormatSeconds(now)])

\* Lines 225-230.
RecMark(t) ==
    /\ pc[t] = "rec_mark"
    /\ mark_attendance(loc[t].name)
    /\ Respond(t, [kind |-> "Recognized", status |-> 200,
                   name |-> loc[t].name, confidence |-> loc[t].confidence])
    /\ UNCHANGED <<labelsFile, dataset, modelFile, recognizer, now, req, loc,
                   snap, resolved, faults, created,
                   user_states, reply>>

\* ------------------------------------------------------------ environment
\* The response is sent and the thread is free again.
Return(t) ==
    /\ pc[t] = "done"
    /\ pc' = [pc EXCEPT ![t] = "idle"]
    /\ req' = [req EXCEPT ![t] = NoReq]
    /\ loc' = [loc EXCEPT ![t] = NoLoc]
    /\ resp' = [resp EXCEPT ![t] = NoResp]
    /\ snap' = [snap EXCEPT ![t] = NoSnap]
    /\ UNCHANGED <<labelsFile, dataset, modelFile, recognizer, ledger, now, resolved, faults, created,
                   user_states, reply>>

\* The clock advances.  It is read when a request arrives (the snapshot), at
\* line 58 and at line 177; an advance at any other moment cannot be told
\* from one just before the next reading, so only those are taken.
Tick ==
    /\ now < MaxTime
    /\ \/ \A t \in Threads : pc[t] = "idle"
       \/ \E t \in Threads : pc[t] \in {"reg_imwrite", "rec_mark"}
    /\ now' = now + 1
    /\ UNCHANGED <<labelsFile, dataset, modelFile, recognizer, ledger,
                   pc, req, loc, resp, snap, resolved, faults, created,
                   user_states, reply>>

\* The server is started again between requests: line 27 makes a new
\* recognizer, the files stay (lines 247-253 create only what is missing).
Restart ==
    /\ \A t \in Threads : pc[t] = "idle"
    /\ recognizer.trained
    /\ recognizer' = [trained |-> FALSE, data |-> {}]
    /\ UNCHANGED <<labelsFile, dataset, modelFile, ledger, now,
                   pc, req, loc, resp, snap, resolved, faults, created,
                   user_states, reply>>

\* labels.json is damaged or lost outside the program: what load_labels
\* then meets at lines 34-40.
CorruptLabels ==
    /\ labelsFile.status = "ok"
    /\ faults < MaxFaults
    /\ faults' = faults + 1
    /\ labelsFile' = [status |-> "corrupt", data |-> EmptyDict]
    /\ UNCHANGED <<dataset, modelFile, recognizer, ledger, now,
                   pc, req, loc, resp, snap, resolved, created,
                   user_states, reply>>

\* labels.json is there and load_labels gets no dict out of it without the
\* except of lines 37-40 seeing it: open() at line 36, outside the try,
\* raises (the file cannot be opened for reading), or json.load returns a
\* value that is not a dict (the file holds "[]" or "null") and the caller's
\* .items() or .get() raises.  The content is not touched.
DenyLabels ==
    /\ labelsFile.status = "ok"
    /\ faults < MaxFaults
    /\ \A t \in Threads : pc[t] \notin {"reg_save_open", "reg_save_dump"}
    /\ faults' = faults + 1
    /\ labelsFile' = [labelsFile EXCEPT !.status = "unreadable"]
    /\ UNCHANGED <<dataset, modelFile, recognizer, ledger, now,
                   pc, req, loc, resp, snap, resolved, created,
                   user_states, reply>>

Unreadable == labelsFile.status = "unreadable"

\* The handler is about to load the registry: lines 159, 89 and 223.
LoadPoint(t) == pc[t] \in {"reg_resolve", "train_scan", "rec_name"}

\* The exception leaves the handler and the request is answered with 500.
LoadFails(t) ==
    /\ LoadPoint(t)
    /\ Unreadable
    /\ Respond(t, [kind |-> "InternalError", status |-> 500,
                   name |-> Unknown, confidence |-> -1])
    /\ UNCHANGED <<labelsFile, dataset, modelFile, recognizer, ledger, now,
                   req, loc, snap, resolved, faults, created,
                   user_states, reply>>

Alone == \A u \in Threads : pc[u] = "idle"

\* The clock has advanced since the sample files were named.
Later == \A s \in dataset : s.fname < FormatMicros(now)

\* The steps of register_face after the arrival of the request.
RegStep(t) ==
    \/ RegResolve(t) \/ RegSaveOpen(t) \/ RegSaveDump(t) \/ RegImwrite(t)
    \/ TrainScan(t) \/ TrainFit(t) \/ TrainSaveOpen(t) \/ TrainSaveClose(t)
    \/ Return(t)

Step(t) ==
    \/ RegStep(t)
    \/ RecLoadModel(t) \/ RecPredict(t) \/ RecName(t) \/ RecMark(t)

\* One request at a time: which thread serves it makes no difference.
Next ==
    \/ \E t \in {"t1"} :
        \/ \E name \in Names \cup {NoField}, image \in Images :
              Alone /\ Register(t, name, image)
        \/ \E image \in Images :
              /\ Alone
              /\ LocatesFace(image) => Len(ledger) < MaxRows
              /\ Recognize(t, image)
        \/ Step(t)
    \/ Tick
    \/ Restart

Spec == Init /\ [][Next]_vars

\* One request at a time, of any kind, and restarts of the server; the clock
\* stands still, so the ledger can take more rows.
LedgerNext ==
    \/ \E t \in {"t1"} :
        \/ \E name \in Names \cup {NoField}, image \in Images :
              Alone /\ Register(t, name, image)
        \/ \E image \in Images : Alone /\ Recognize(t, image)
        \/ Step(t)
    \/ Restart

LedgerSpec == Init /\ [][LedgerNext]_vars

\* One request at a time, each with a located face, and the registry store
\* may fail at any moment; the clock stands still.
FaultNext ==
    \/ \E t \in {"t1"} :
        \/ \E name \in Names : Alone /\ Register(t, name, FaceImage)
        \/ Alone /\ Len(ledger) < MaxRows /\ Recognize(t, FaceImage)
        \/ Step(t)
    \/ CorruptLabels

FaultSpec == Init /\ [][FaultNext]_vars

\* One request at a time, each with a located face; the registry store may
\* fail in either way: its content no longer parses, or it cannot be read
\* as a dict at all.
StoreFaultNext ==
    \/ \E t \in {"t1"} :
        \/ \E name \in Names : Alone /\ Register(t, name, FaceImage)
        \/ Alone /\ Len(ledger) < MaxRows /\ Recognize(t, FaceImage)
        \/ ~(LoadPoint(t) /\ Unreadable) /\ Step(t)
        \/ LoadFails(t)
    \/ CorruptLabels
    \/ DenyLabels

StoreFaultSpec == Init /\ [][StoreFaultNext]_vars

\* One request at a time, each with a located face, and a registry store
\* that never fails.  The name is a text of the client's choice: the text
\* "Unknown" is one.
AnyNameNext ==
    \E t \in {"t1"} :
        \/ \E name \in Names \cup {Unknown} : Alone /\ Register(t, name, FaceImage)
        \/ Alone /\ Len(ledger) < MaxRows /\ Recognize(t, FaceImage)
        \/ Step(t)

AnyNameSpec == Init /\ [][AnyNameNext]_vars

\* Registrations one at a time with the clock running, each arriving at a
\* later clock reading than the ones before; the content of the registry
\* store may be lost at any moment.
RebuildNext ==
    \/ \E t \in {"t1"} :
        \/ \E name \in Names : Alone /\ Later /\ Register(t, name, FaceImage)
        \/ RegStep(t)
    \/ Tick
    \/ CorruptLabels

RebuildSpec == Init /\ [][RebuildNext]_vars

\* Requests of the two threads overlap.  The requests are those that get
\* past face detection; the clock stands still.
ConcNext ==
    \E t \in Threads :
        \/ \E name \in Names : Register(t, name, FaceImage)
        \/ Recognize(t, FaceImage)
        \/ Step(t)

ConcSpec == Init /\ [][ConcNext]_vars

\* No registration has been made or is being made for the name.
Unseen(name) ==
    /\ resolved[name].times = 0
    /\ \A u \in Threads : req[u].name # name

\* Registrations of the two threads overlap, each for a name not seen
\* before; no recognition is served and the clock stands still.
RegRaceNext ==
    \E t \in Threads :
        \/ \E name \in Names : Unseen(name) /\ Register(t, name, FaceImage)
        \/ RegStep(t)

RegRaceSpec == Init /\ [][RegRaceNext]_vars

\* Registrations of the two threads, with the clock running.  A request
\* that finds the server free comes after the requests before it have
\* answered, so at a later clock reading than theirs; requests that overlap
\* may read the clock at line 177 within one tick.
SampleRaceNext ==
    \/ \E t \in Threads :
        \/ \E name \in Names :
              /\ Alone => Later
              /\ Register(t, name, FaceImage)
        \/ RegStep(t)
    \/ Tick

SampleRaceSpec == Init /\ [][SampleRaceNext]_vars

\* ------------------------------------------------------ agent.py: chatbot
\* The user ids of the payloads; 'default_user' is the id of a payload that
\* names none (line 53).
Users == {"default_user"}

\* A message is written as the set of the texts that the handler looks for
\* and that occur in it, in any case of letters: "@" (line 69) and the three
\* intents (lines 149-157).
Messages == {{}, {"@"}, {"complaint"}, {"leave"}, {"feedback"}}

Intents == {"complaint", "leave", "feedback"}

\* The keys that each form collects, in the order of its if/elif chain
\* (lines 68-79, 93-102, 116-125).
Fields(intent) ==
    IF intent = "complaint" THEN <<"email", "topic", "subject", "description">>
    ELSE IF intent = "leave" THEN <<"name", "roll_number", "reason", "date">>
    ELSE <<"meal_day", "meal_time", "meal_item", "review">>

\* The endpoint each form is posted to (lines 84, 107, 136).
Endpoint(intent) ==
    IF intent = "complaint" THEN "/complaint"
    ELSE IF intent = "leave" THEN "/leave"
    ELSE "/reviews"

AllFilled == "<every key is in data>"

\* The first key of the chain that data does not hold.
NextField(intent, data) ==
    IF \A i \in 1..4 : Fields(intent)[i] \in Keys(data)
    THEN AllFilled
    ELSE Fields(intent)[CHOOSE i \in 1..4 :
                            /\ Fields(intent)[i] \notin Keys(data)
                            /\ \A j \in 1..(i - 1) : Fields(intent)[j] \in Keys(data)]

\* {"state": None, "data": {}, "intent": None}, lines 59, 86, 109, 140.
IdleState == [state |-> "None", data |-> EmptyDict, intent |-> "None"]

\* Lines 150, 154, 158.
Collecting(intent) == [state |-> "collecting_data", data |-> EmptyDict, intent |-> intent]

\* What requests.post comes to: a response with a status code, or an
\* exception (no connection to the endpoint).
Outcomes ==
    {[raised |-> FALSE, status |-> c] : c \in {201, 400, 500}}
        \cup {[raised |-> TRUE, status |-> 0]}

\* Mutant: the session is reset after the post, whatever came back.
AfterSubmitAlwaysReset(outcome, filled) == IdleState

\* Lines 85-86, 108-109, 139-140: the session after the post.
AfterSubmit(outcome, filled) ==
    IF ~outcome.raised /\ outcome.status = 201 THEN IdleState ELSE filled

\* The answer after the post.  An exception is caught at lines 144-146 in
\* the feedback form, and at lines 190-193, with status 500, in the others.
SubmitAnswer(intent, outcome) ==
    IF ~outcome.raised /\ outcome.status = 201
    THEN [response |-> "submitted successfully", http |-> 200]
    ELSE IF outcome.raised /\ intent # "feedback"
    THEN [response |-> "Internal server error", http |-> 500]
    ELSE [response |-> "error submitting", http |-> 200]

\* The intent that lines 149-157 find in a message, "None" without one.
Detect(message) ==
    IF "complaint" \in message THEN "complaint"
    ELSE IF "leave" \in message THEN "leave"
    ELSE IF "feedback" \in message THEN "feedback"
    ELSE "None"

Answered(user_id, message, response) ==
    [user |-> user_id, message |-> message, posted |-> "none", status |-> 0,
     raised |-> FALSE, response |-> response, http |-> 200]

\* chatbot(), lines 48-188, for a JSON payload: one request, from the payload
\* to the answer.
Chatbot(user_id, message) ==
    LET known == IF user_id \in DOMAIN user_states THEN user_states
                 ELSE (user_id :> IdleState) @@ user_states
        session == known[user_id]
        field == IF session.state = "collecting_data"
                 THEN NextField(session.intent, session.data)
                 ELSE AllFilled
        filled == [session EXCEPT !.data = DictSet(session.data, field, message)]
    IN
    /\ IF field # AllFilled
       THEN IF session.intent = "complaint" /\ field = "email" /\ "@" \notin message
            THEN /\ user_states' = known
                 /\ reply' = Answered(user_id, message, "provide a valid email")
            ELSE IF field # Fields(session.intent)[4]
            THEN /\ user_states' = [known EXCEPT ![user_id] = filled]
                 /\ reply' = Answered(user_id, message, "provide the next field")
            ELSE \E outcome \in Outcomes :
                 /\ user_states' = [known EXCEPT ![user_id] = AfterSubmit(outcome, filled)]
                 /\ reply' = [user |-> user_id, message |-> message,
                              posted |-> Endpoint(session.intent),
                              status |-> outcome.status, raised |-> outcome.raised,
                              response |-> SubmitAnswer(session.intent, outcome).response,
                              http |-> SubmitAnswer(session.intent, outcome).http]
       ELSE IF Detect(message) # "None"
            THEN /\ user_states' = [known EXCEPT ![user_id] = Collecting(Detect(message))]
                 /\ reply' = Answered(user_id, message, "provide the first field")
            ELSE \E answer \in {"generated text", "please rephrase", "try again later"} :
                 /\ user_states' = known
                 /\ reply' = Answered(user_id, message, answer)
    /\ UNCHANGED <<labelsFile, dataset, modelFile, recognizer, ledger, now,
                   pc, req, loc, resp, snap, resolved, faults, created>>

\* chatbot() for a request without a JSON object: payload.get raises at
\* line 52 and lines 190-193 answer.
ChatbotNoJson ==
    /\ reply' = [user |-> "", message |-> {}, posted |-> "none", status |-> 0,
                 raised |-> FALSE, response |-> "Internal server error", http |-> 500]
    /\ UNCHANGED <<labelsFile, dataset, modelFile, recognizer, ledger, now,
                   pc, req, loc, resp, snap, resolved, faults, created, user_states>>

\* The chatbot's requests, one at a time: it shares nothing with the
\* attendance handlers.
ChatNext ==
    \/ \E user_id \in Users, message \in Messages : Chatbot(user_id, message)
    \/ ChatbotNoJson

ChatSpec == Init /\ [][ChatNext]_vars

\* ------------------------------------------------------------------ claims
Values(d) == {d[i][2] : i \in 1..Len(d)}

Finished(t, op) == pc[t] = "done" /\ req[t].op = op

\* A registration that got past face detection and has answered.
Registered(t) ==
    Finished(t, "register") /\ resp[t].kind \in {"Registered", "RegisteredNoTrain"}

\* C1: every registration of one name resolves to the same id; a registration
\* of a name the registry already holds leaves the registry as it was; of
\* two identities created one after the other, for distinct names, the
\* later has the greater id.
C1_IdempotentResolution ==
    /\ \A t \in Threads :
        Registered(t) => resolved[req[t].name].id = IntOf(loc[t].label_id_str)
    /\ \A t \in Threads :
        Registered(t) /\ req[t].name \in Values(Load(snap[t].labelsFile))
            => /\ labelsFile = snap[t].labelsFile
               /\ ~loc[t].created
               /\ <<loc[t].label_id_str, req[t].name>> \in
                      {snap[t].labelsFile.data[i] : i \in 1..Len(snap[t].labelsFile.data)}
    /\ \A i, j \in 1..Len(created) :
        i < j => created[i][1] # created[j][1] /\ created[i][2] < created[j][2]

\* One name registered twice and a second name registered after it.
C1_Witness ==
    /\ \E n \in Names : resolved[n].times = 2
    /\ Len(created) = 2
    /\ \E t \in Threads : Registered(t)

\* C2: a new identity gets id 1 in an empty registry and the largest id plus
\* one otherwise; the ids of the registry are positive and pairwise distinct.
C2_NextIdAllocation ==
    /\ \A t \in Threads :
        Registered(t) /\ loc[t].created
            => LET before == Load(snap[t].labelsFile)
                   id == IntOf(loc[t].label_id_str)
               IN /\ before = EmptyDict => id = 1
                  /\ before # EmptyDict
                        => \E k \in Keys(before) :
                              /\ id = IntOf(k) + 1
                              /\ \A k2 \in Keys(before) : IntOf(k2) <= IntOf(k)
                  /\ load_labels = Append(before, <<loc[t].label_id_str, req[t].name>>)
    /\ \A i \in 1..Len(load_labels) :
        /\ IntOf(load_labels[i][1]) >= 1
        /\ \A j \in 1..Len(load_labels) :
              i # j => IntOf(load_labels[i][1]) # IntOf(load_labels[j][1])

\* A new identity in a registry that held one already.
C2_Witness ==
    \E t \in Threads :
        /\ Registered(t) /\ loc[t].created
        /\ Len(Load(snap[t].labelsFile)) = 1
        /\ Len(load_labels) = 2

\* C3: a request in whose image no face is located answers "No face
\* detected" and leaves labels.json and attendance.csv as they were.
C3_NoFaceTouchesNothing ==
    \A t \in Threads :
        /\ pc[t] = "done" /\ req[t].image.kind = "image" /\ req[t].image.face = 0
              /\ (req[t].op = "register" => req[t].name # NoField)
            => resp[t].kind = "NoFace"
        /\ pc[t] = "done" /\ resp[t].kind = "NoFace"
            => labelsFile = snap[t].labelsFile /\ ledger = snap[t].ledger

\* A recognition without a face, with a registry and a ledger that hold
\* something.
C3_Witness ==
    \E t \in Threads :
        /\ Finished(t, "recognize") /\ resp[t].kind = "NoFace"
        /\ Len(ledger) > 0 /\ Len(load_labels) > 0

\* C4: a retrain that finds no sample answers that there is nothing to train
\* and leaves model_eigen.yml as it was, present or not.
C4_SkippedRetrainKeepsModel ==
    \A t \in Threads :
        Finished(t, "register") /\ resp[t].kind = "RegisteredNoTrain"
            => modelFile = snap[t].model

\* A skipped retrain with a model on disk.
C4_Witness ==
    \E t \in Threads :
        /\ Finished(t, "register") /\ resp[t].kind = "RegisteredNoTrain"
        /\ modelFile.status = "ok" /\ modelFile.data # {}

\* C5: a recognition of a located face made while no model file exists
\* answers "Model not trained yet"; an accepted or rejected recognition had
\* a model file when it arrived.
C5_NoModelBeforeTraining ==
    \A t \in Threads :
        /\ Finished(t, "recognize") /\ LocatesFace(req[t].image)
              /\ snap[t].model.status = "absent"
            => resp[t].kind = "NoModel" /\ modelFile.status = "absent"
        /\ Finished(t, "recognize") /\ resp[t].kind \in {"Recognized", "Rejected"}
            => snap[t].model.status = "ok"

\* A located face recognized before any training.
C5_Witness ==
    \E t \in Threads :
        /\ Finished(t, "recognize") /\ resp[t].kind = "NoModel"
        /\ LocatesFace(req[t].image) /\ dataset = {}

\* The ledger when a recognition has been accepted: what it held at the
\* arrival of the request and one more row, with the name answered.
OneNewRecord(t) ==
    /\ Len(ledger) = Len(snap[t].ledger) + 1
    /\ SubSeq(ledger, 1, Len(snap[t].ledger)) = snap[t].ledger
    /\ ledger[Len(ledger)].name = resp[t].name

\* C6 as stated: an accepted recognition appends exactly one row, and the
\* row's timestamp, as an instant, is not earlier than the request's start.
C6_TimestampNotBeforeStart ==
    \A t \in Threads :
        Finished(t, "recognize") /\ resp[t].kind = "Recognized"
            => /\ OneNewRecord(t)
               /\ ledger[Len(ledger)].ts * TicksPerSecond >= snap[t].now

\* C6 as amended: an accepted recognition appends exactly one row, and the
\* row's timestamp names the second in which the request started or a
\* later one.
C6_TimestampNotBeforeStartSecond ==
    \A t \in Threads :
        Finished(t, "recognize") /\ resp[t].kind = "Recognized"
            => /\ OneNewRecord(t)
               /\ (ledger[Len(ledger)].ts + 1) * TicksPerSecond > snap[t].now

\* An accepted recognition that arrived within a second and whose row names
\* the beginning of that second.
C6_Witness ==
    \E t \in Threads :
        /\ Finished(t, "recognize") /\ resp[t].kind = "Recognized"
        /\ OneNewRecord(t)
        /\ ledger[Len(ledger)].ts * TicksPerSecond < snap[t].now

\* C7: with a model file, a recognition of a located face is accepted
\* exactly when the score is below 5500 and rejected otherwise, and the
\* answer carries the score.
C7_ThresholdDecision ==
    \A t \in Threads :
        Finished(t, "recognize") /\ LocatesFace(req[t].image)
              /\ snap[t].model.status = "ok"
            => /\ resp[t].kind \in {"Recognized", "Rejected"}
               /\ resp[t].confidence = loc[t].confidence
               /\ resp[t].confidence >= 0
               /\ resp[t].kind = "Recognized" <=> loc[t].confidence < 5500

\* A rejection at a score equal to the threshold.
C7_Witness ==
    \E t \in Threads :
        /\ Finished(t, "recognize") /\ resp[t].kind = "Rejected"
        /\ resp[t].confidence = 5500

\* The recognition of thread t passed the threshold for an id that the
\* registry it loaded does not hold.
AcceptedStale(t) ==
    /\ req[t].op = "recognize"
    /\ pc[t] \in {"rec_mark", "done"}
    /\ loc[t].label_id >= 1 /\ loc[t].confidence < 5500
    /\ \A i \in 1..Len(loc[t].labels_dict) :
          IntOf(loc[t].labels_dict[i][1]) # loc[t].label_id

\* C8: an accepted recognition whose id is not in the registry is answered
\* as a recognition of "Unknown", and the row appended says "Unknown".
C8_StaleIdIsUnknown ==
    \A t \in Threads :
        AcceptedStale(t)
            => /\ loc[t].name = "Unknown"
               /\ pc[t] = "done"
                    => /\ resp[t].kind = "Recognized" /\ resp[t].status = 200
                       /\ resp[t].name = "Unknown"
                       /\ Len(ledger) = Len(snap[t].ledger) + 1
                       /\ ledger[Len(ledger)].name = "Unknown"

\* A model that knows id 1 and a registry that has lost it.
C8_Witness ==
    \E t \in Threads :
        /\ AcceptedStale(t) /\ pc[t] = "done"
        /\ resp[t].kind = "Recognized" /\ resp[t].name = "Unknown"
        /\ ledger[Len(ledger)].name = "Unknown"

\* C9 as stated: a recognition of a located face that arrives when a model
\* file is present is decided on a whole model, the one before a retrain
\* or the one after it: it is accepted or rejected, and never fails on a
\* file that a retrain is writing.
C9_AtomicModelReplacement ==
    \A t \in Threads :
        Finished(t, "recognize") /\ LocatesFace(req[t].image)
              /\ snap[t].model.status = "ok"
            => resp[t].kind \in {"Recognized", "Rejected"}

\* Thread t registers a name its copy of the registry did not hold, and has
\* allocated an id for it.
Allocated(t) ==
    /\ req[t].op = "register" /\ loc[t].created
    /\ pc[t] \notin {"idle", "reg_resolve"}

\* The registry as thread t loaded it, before its own entry.
Loaded(t) == SubSeq(loc[t].labels_dict, 1, Len(loc[t].labels_dict) - 1)

\* Thread t has written the registry with its entry.
Saved(t) == Allocated(t) /\ pc[t] \notin {"reg_save_open", "reg_save_dump"}

\* C10: two registrations of distinct unseen names that both loaded the
\* registry before either saved it hold the same id, and once both have
\* saved, a registry that parses holds at most one of the two names.
C10_LostAllocation ==
    \A t, u \in Threads :
        /\ t # u /\ Allocated(t) /\ Allocated(u)
        /\ req[t].name # req[u].name
        /\ Loaded(t) = Loaded(u)
        => /\ loc[t].label_id_str = loc[u].label_id_str
           /\ Saved(t) /\ Saved(u) /\ labelsFile.status = "ok"
                => ~({req[t].name, req[u].name} \subseteq Values(labelsFile.data))

\* Both registrations have answered with success, under one id, and the
\* registry holds one of the two names.
C10_Witness ==
    \E t, u \in Threads :
        /\ t # u /\ Allocated(t) /\ Allocated(u)
        /\ resp[t].kind = "Registered" /\ resp[u].kind = "Registered"
        /\ req[t].name # req[u].name
        /\ loc[t].label_id_str = loc[u].label_id_str
        /\ labelsFile.status = "ok"
        /\ req[t].name \in Values(labelsFile.data)
        /\ req[u].name \notin Values(labelsFile.data)

\* The number of rows of a ledger that carry the name.
Count(name, rows) == Cardinality({i \in 1..Len(rows) : rows[i].name = name})

\* Thread t answers an accepted recognition in this step.
AcceptedStep(t) == pc[t] = "rec_mark" /\ pc'[t] = "done"

\* C11: no step changes, removes or reorders a row the ledger holds; a step
\* that answers an accepted recognition adds one row for the name answered,
\* whatever the ledger holds for that name already, and no other step adds
\* a row.
C11_AppendOnlyLedger ==
    [][/\ Len(ledger') >= Len(ledger)
       /\ SubSeq(ledger', 1, Len(ledger)) = ledger
       /\ \A t \in Threads :
            AcceptedStep(t)
                => /\ resp'[t].kind = "Recognized"
                   /\ Len(ledger') = Len(ledger) + 1
                   /\ Count(resp'[t].name, ledger')
                         = Count(resp'[t].name, ledger) + 1
       /\ (\A t \in Threads : ~AcceptedStep(t)) => ledger' = ledger]_vars

\* A name accepted a second time, after a restart or not: the ledger holds
\* two rows for it.
C11_Witness ==
    \E t \in Threads :
        /\ Finished(t, "recognize") /\ resp[t].kind = "Recognized"
        /\ Count(resp[t].name, snap[t].ledger) = 1
        /\ Count(resp[t].name, ledger) = 2

\* C12: a recognition that ends rejected, without a model or on an image
\* that does not decode, and a registration whatever its outcome, leave the
\* ledger as it was when the request arrived.
C12_LedgerWrittenOnlyOnSuccess ==
    \A t \in Threads :
        /\ Finished(t, "recognize")
              /\ resp[t].kind \in {"Rejected", "NoModel", "InvalidImage"}
            => ledger = snap[t].ledger
        /\ Finished(t, "register") => ledger = snap[t].ledger

\* A rejected recognition with a ledger that holds a row.
C12_Witness ==
    \E t \in Threads :
        /\ Finished(t, "recognize") /\ resp[t].kind = "Rejected"
        /\ Len(ledger) > 0 /\ ledger = snap[t].ledger

\* Thread t writes its sample file in this step.
ImwriteStep(t) == pc[t] = "reg_imwrite" /\ pc'[t] = "train_scan"

\* C13 as stated: a registration's write adds one file that was not there,
\* under the directory of the id it resolved, and no step takes a stored
\* sample away or puts another in its place.
C13_SamplesOnlyAccumulate ==
    [][/\ dataset \subseteq dataset'
       /\ \A t \in Threads :
            ImwriteStep(t)
                => \E s \in dataset' \ dataset :
                      /\ s.dir = loc[t].label_id_str
                      /\ dataset' = dataset \cup {s}
                      /\ \A old \in dataset :
                            ~(old.dir = s.dir /\ old.fname = s.fname)]_vars

\* A registration whose retrain returned True.
Trained(t) == Finished(t, "register") /\ resp[t].kind = "Registered"

\* Every sample file on disk, labelled with the id of its directory.
Labelled(samples) ==
    {[dir |-> s.dir, fname |-> s.fname, face |-> s.face, label |-> IntOf(s.dir)] :
        s \in samples}

\* C14 as stated: after a retrain that returned True the model file holds
\* exactly the samples on disk, each with the id of its directory.
C14_RetrainUsesWholeCorpus ==
    \A t \in Threads :
        Trained(t) => modelFile = [status |-> "ok", data |-> Labelled(dataset)]

\* C14 as amended: after a retrain that returned True the model file holds
\* exactly the samples stored under the ids of the registry the request
\* worked with, each with the id of its directory: nothing of the model
\* before, and of the samples on disk all but those under an id the
\* registry does not hold.
C14_RetrainUsesRegisteredCorpus ==
    \A t \in Threads :
        Trained(t)
            => /\ modelFile.status = "ok"
               /\ modelFile.data \subseteq Labelled(dataset)
               /\ \A s \in Labelled(dataset) :
                     s \in modelFile.data <=> s.dir \in Keys(loc[t].labels_dict)

\* A retrain after the registry was lost and rebuilt: the model before held
\* the sample of an id that the new model leaves out, though it is on disk.
C14_Witness ==
    \E t \in Threads :
        /\ Trained(t) /\ modelFile.data # {}
        /\ \E s \in Labelled(dataset) :
              s \in snap[t].model.data /\ s \notin modelFile.data

\* The outcomes the handlers answer by a return statement.
NormalOutcomes ==
    {"Registered", "RegisteredNoTrain", "Recognized", "Rejected", "NoModel"}

\* C15 as stated: whatever has happened to the registry store, a request
\* with a located face ends in one of the handlers' own outcomes, and a
\* registration that arrives when the store is not a readable registry
\* proceeds as with an empty one: the name gets id 1.
C15_BrokenRegistryIsEmpty ==
    \A t \in Threads :
        /\ pc[t] = "done" => resp[t].kind \in NormalOutcomes
        /\ Finished(t, "register") /\ snap[t].labelsFile.status # "ok"
            => loc[t].created /\ loc[t].label_id_str = Str(1)

\* The identity labels of a model.
LabelsOf(model) == {s.label : s \in model}

\* C16: the model file changes only in the save of a registration's retrain,
\* never in a step of a recognition; a recognition that finds the file
\* reads it into the recognizer before predicting, whatever the recognizer
\* held; and the decision is taken with the recognizer holding what the
\* file holds, which is what it held when the request arrived, on a label
\* of that model.
C16_DecidesOnPersistedModel ==
    [][/\ modelFile' # modelFile
            => \E t \in Threads :
                  /\ req[t].op = "register"
                  /\ pc[t] \in {"train_save_open", "train_save_close"}
       /\ \A t \in Threads :
            /\ pc[t] = "rec_load_model" /\ pc'[t] = "rec_predict"
                => recognizer' = [trained |-> TRUE, data |-> modelFile.data]
            /\ pc[t] = "rec_predict" /\ pc'[t] # "rec_predict"
                => /\ recognizer.data = modelFile.data
                   /\ modelFile = snap[t].model
                   /\ loc'[t].label_id \in LabelsOf(modelFile.data)]_vars

\* A recognition accepted on the identity that the latest retrain added to
\* the model.
C16_Witness ==
    \E t \in Threads :
        /\ Finished(t, "recognize") /\ resp[t].kind = "Recognized"
        /\ loc[t].label_id = 2
        /\ LabelsOf(modelFile.data) = {1, 2}
        /\ modelFile = snap[t].model

\* The registration of thread t arrived at a registry store that did not
\* parse, and has resolved its name.
AfterCorruption(t) ==
    /\ req[t].op = "register"
    /\ snap[t].labelsFile.status = "corrupt"
    /\ pc[t] \notin {"idle", "reg_resolve"}

\* The samples of a set that lie in sample directory 1.
InDirOne(samples) == {x \in samples : x.dir = Str(1)}

\* C17: a registration that meets a corrupt registry store gives its name
\* id 1 in a registry of that one entry; once saved, the registry file, if
\* it still parses, holds that entry and no identity of before; its sample
\* goes to directory 1 beside the samples that were there, all of which
\* stay; and a retrain that returns True puts every sample of directory
\* 1, old and new, into the model under label 1, the new name's id.
C17_RebuiltRegistryTakesOverDirOne ==
    \A t \in Threads :
        AfterCorruption(t)
            => /\ loc[t].created /\ loc[t].label_id_str = Str(1)
               /\ loc[t].labels_dict = << <<Str(1), req[t].name>> >>
               /\ pc[t] \notin {"reg_save_open", "reg_save_dump"}
                     /\ labelsFile.status = "ok"
                    => labelsFile.data = << <<Str(1), req[t].name>> >>
               /\ snap[t].dataset \subseteq dataset
               /\ pc[t] \in {"train_scan", "train_fit", "train_save_open",
                              "train_save_close", "done"}
                    => \E x \in InDirOne(dataset) \ snap[t].dataset :
                          dataset = snap[t].dataset \cup {x}
               /\ Trained(t)
                    => /\ modelFile.data = Labelled(InDirOne(dataset))
                       /\ LabelsOf(modelFile.data) = {1}
                       /\ NameOf(loc[t].labels_dict, 1) = req[t].name

\* Directory 1 held a sample of the name registered first; the registry was
\* lost; another name was registered and trained: the model holds both
\* samples under label 1, which the registry gives to the second name only.
C17_Witness ==
    \E t \in Threads :
        /\ AfterCorruption(t) /\ Trained(t)
        /\ InDirOne(snap[t].dataset) # {}
        /\ Cardinality(modelFile.data) = 2
        /\ Cardinality(InDirOne(dataset)) = 2
        /\ resolved[req[t].name].times = 1
        /\ \E n \in Names : n # req[t].name /\ resolved[n].id = 1
        /\ labelsFile = [status |-> "ok", data |-> << <<Str(1), req[t].name>> >>]

\* The ids of a registry, as numbers.
Ids(labels_dict) == {IntOf(k) : k \in Keys(labels_dict)}

\* Between requests and inside them, whenever the registry file is whole,
\* every label of the model file is an id of the registry.
ModelLabelsAreRegistered ==
    labelsFile.status = "ok" => LabelsOf(modelFile.data) \subseteq Ids(labelsFile.data)

\* C18 as stated: every label of the model is an id of the registry, and
\* an accepted recognition does not answer the name "Unknown".
C18_AcceptedIsNeverUnknown ==
    /\ ModelLabelsAreRegistered
    /\ \A t \in Threads :
        Finished(t, "recognize") /\ resp[t].kind = "Recognized"
            => resp[t].name # "Unknown"

\* C18 as amended: every label of the model is an id of the registry, and
\* an accepted recognition answers the name that the registry holds for
\* the id, never the default of the lookup; that name is "Unknown" only
\* when "Unknown" is a registered name.
C18_AcceptedIsRegisteredName ==
    /\ ModelLabelsAreRegistered
    /\ \A t \in Threads :
        Finished(t, "recognize") /\ resp[t].kind = "Recognized"
            => /\ ~AcceptedStale(t)
               /\ \E i \in 1..Len(load_labels) :
                     load_labels[i] = <<Str(loc[t].label_id), resp[t].name>>
               /\ resp[t].name = "Unknown"
                     => resolved["Unknown"].times > 0

\* An accepted recognition of the person registered under the name
\* "Unknown".
C18_Witness ==
    \E t \in Threads :
        /\ Finished(t, "recognize") /\ resp[t].kind = "Recognized"
        /\ resp[t].name = "Unknown"
        /\ <<Str(loc[t].label_id), "Unknown">> \in
               {load_labels[i] : i \in 1..Len(load_labels)}
        /\ ledger[Len(ledger)].name = "Unknown"

\* The samples of the set that thread t's request has written: under the id
\* it resolved, named by a clock reading of the request's time.
WrittenBy(t, samples) ==
    {x \in samples : /\ x.dir = loc[t].label_id_str
                     /\ x.fname >= FormatMicros(snap[t].now)
                     /\ x.fname <= FormatMicros(now)}

\* C19: a registration with a name and a located face ends with the
\* answer of a successful retrain, never with "no data to train yet", and
\* the model file is then whole and holds the sample the request wrote,
\* under the id it resolved.
C19_StoredSampleIsTrained ==
    \A t \in Threads :
        Finished(t, "register") /\ req[t].name # NoField /\ LocatesFace(req[t].image)
            => /\ resp[t].kind = "Registered"
               /\ modelFile.status = "ok"
               /\ WrittenBy(t, dataset) # {}
               /\ Labelled(WrittenBy(t, dataset)) \subseteq modelFile.data

\* The first registration ever: from no sample and no model to a model
\* that holds the one sample.
C19_Witness ==
    \E t \in Threads :
        /\ Trained(t)
        /\ snap[t].dataset = {} /\ snap[t].model.status = "absent"
        /\ Cardinality(modelFile.data) = 1
        /\ modelFile.data = Labelled(dataset)

\* The session of a user id that has one.
Session(u) == user_states[u]

\* The session is in a form whose every key is in data: what a failed
\* submission leaves.
Stuck(session) ==
    /\ session.state = "collecting_data"
    /\ session.intent \in Intents
    /\ NextField(session.intent, session.data) = AllFilled

\* This step is a request of user u that posted a form.
Posts(u) == reply'.user = u /\ reply'.posted # "none" /\ reply' # reply

\* C20: a session goes from collecting_data to idle only in a request of
\* its user that posted the form and got status 201; after a post that
\* raised or got another status the session is in collecting_data with
\* every key of its form in data; and in that state no request posts, and
\* the session changes only by a message that names an intent, to the
\* empty form of that intent.
C20_SessionResetOnlyOnCreated ==
    [][\A u \in DOMAIN user_states' :
        /\ u \in DOMAIN user_states
              /\ Session(u).state = "collecting_data"
              /\ user_states'[u].state = "None"
            => /\ user_states'[u] = IdleState
               /\ reply'.user = u /\ reply'.posted = Endpoint(Session(u).intent)
               /\ ~reply'.raised /\ reply'.status = 201
        /\ Posts(u) /\ (reply'.raised \/ reply'.status # 201)
            => /\ Stuck(user_states'[u])
               /\ user_states'[u].intent = Session(u).intent
        /\ u \in DOMAIN user_states /\ Stuck(Session(u))
            => /\ reply'.posted = "none"
               /\ user_states'[u] # Session(u)
                    => /\ reply'.user = u
                       /\ Detect(reply'.message) \in Intents
                       /\ user_states'[u] = Collecting(Detect(reply'.message))]_vars

\* After a post that failed, a message that names no intent has been
\* answered by the assistant and the session is as the failure left it.
C20_Witness ==
    \E u \in DOMAIN user_states :
        /\ Stuck(Session(u))
        /\ reply.user = u /\ reply.posted = "none"
        /\ Detect(reply.message) = "None"
        /\ reply.response = "generated text"

====
